---- MODULE Spec2Model ----
(***************************************************************************)
(* A model of nx-editor8's chained message-processing engine:              *)
(*   - ProcessorChain (src/src/processor_chain.py): the pipeline;          *)
(*   - ChainedRabbitMQProcessor (src/src/rabbitmq_processor.py): the       *)
(*     broker consumer/publisher that drives a pipeline.                   *)
(***************************************************************************)
EXTENDS Integers, Sequences, FiniteSets, TLC

\* ------------------------------------------------------------------ bounds

\* The longest chain built with add_processor.
MaxStages == 3

\* Python's None where a name or a handler is expected.
None == "None"

\* An optional message value: Nothing is Python's None (the drop-signal),
\* Some(v) a message whose value is v.
Nothing == << >>
Some(v) == <<v>>

\* ---------------------------------------------------------- ProcessorChain
\* Messages are Python objects.  A dict message is an object on the heap; its
\* value is modelled as the sequence of the marks the stages left on it, so
\* that the order of the stages shows in the value.  A reference is an index
\* into the heap; None is no object.

\* The marks of a message process() is called with: an empty and a non-empty
\* message.
InputValues == {<< >>, <<0>>}

\* The stage functions a chain is built from.
\*   new:     returns a new object, the argument's value with `tag` appended
\*   inplace: appends `tag` to the argument itself and returns the argument
\*   filter:  returns None for an empty message, else the argument
\*   drop:    returns None
\*   raise:   raises the error named `tag`
StageFns ==
    { [kind |-> "new", tag |-> 1], [kind |-> "inplace", tag |-> 2],
      [kind |-> "filter", tag |-> 0], [kind |-> "drop", tag |-> 0],
      [kind |-> "raise", tag |-> 3] }

\* The names add_processor may be given; None asks for the function's own.
StageNames == {None, "stage"}

\* The error handlers: none set, or a function (message, error, name) that
\*   annotate: writes the error into the message it was given, returns it
\*   fresh:    returns a new message holding only the error
\*   drop:     returns None
\*   raise:    raises
Handlers == {None, "annotate", "fresh", "drop", "raise"}

\* What process() is called with: a message, or None.
Inputs == {Nothing} \cup {Some(v) : v \in InputValues}

VARIABLES
    processors,      \* ProcessorChain.processors: <<[fn, name]>>
    error_handler,   \* ProcessorChain.error_handler
    lastRun,         \* <<the last process() call on this chain>>, or << >>
    lastError,       \* <<the last call of the application's error_handler>>,
                     \*   or << >>
    pipeline,        \* <<the chain create_complete_pipeline returned>>, or
                     \*   << >>
    wire             \* <<the last message published, its body and what the
                     \*   handler's parse step makes of the body>>, or << >>

chainVars == <<processors, error_handler, lastRun, lastError, pipeline, wire>>

\* The state of a ChainedRabbitMQProcessor, its threads and its broker.
VARIABLES
    is_connected,        \* self.is_connected
    _running,            \* self._running
    _reconnect_attempt,  \* self._reconnect_attempt
    _subscriptions,      \* self._subscriptions, in insertion order:
                         \*   <<[queue, chain, output_queue]>>
    connection,          \* self.connection: a connection id, 0 for None
    channel,             \* self.channel: the channel of that connection id
    _lock,               \* self._lock: the unit holding it, -1 when free
    _consumer_thread,    \* self._consumer_thread: a thread, 0 for None
    _shutdown_complete,  \* self._shutdown_complete (the Event's flag)
    stack,               \* per unit: its call stack, innermost frame last
    ret,                 \* per unit: what the method it called returned
    conns,               \* per connection id: [open, consumers]
    ready,               \* per input queue: the messages ready in it
    outq,                \* the messages published to the output queue
    deliveries,          \* per delivery tag: the delivery and its history
    env,                 \* [losses, refusals, calls, lostLooping, maxLoss]:
                         \*   what the broker and the caller have done so
                         \*   far, and the connection losses there can be
    delays,              \* the delays waited before the connect attempts
                         \*   of the current outage
    sleepers             \* the threads inside time.sleep(backoff_delay),
                         \*   in the order they went to sleep

procVars == <<is_connected, _running, _reconnect_attempt, _subscriptions,
              connection, channel, _lock, _consumer_thread,
              _shutdown_complete, stack, ret, conns, ready, outq,
              deliveries, env, delays, sleepers>>

vars == <<procVars, chainVars>>

\* getattr(processor, '__name__', ...): the function's own name.
FnName(fn) == fn.kind

\* The error a stage raises when it is handed None (AttributeError).
NoneError == 4

\* One stage function called on the object `ref` of `heap` (0: on None): what
\* it returns (ret), whether it raised, and the heap it leaves.
CallStage(fn, heap, ref) ==
    CASE fn.kind = "drop" ->
           [raised |-> FALSE, error |-> 0, ret |-> 0, heap |-> heap]
      [] fn.kind = "raise" ->
           [raised |-> TRUE, error |-> fn.tag, ret |-> 0, heap |-> heap]
      [] ref = 0 ->
           [raised |-> TRUE, error |-> NoneError, ret |-> 0, heap |-> heap]
      [] fn.kind = "new" ->
           [raised |-> FALSE, error |-> 0, ret |-> Len(heap) + 1,
            heap |-> Append(heap, Append(heap[ref], fn.tag))]
      [] fn.kind = "inplace" ->
           [raised |-> FALSE, error |-> 0, ret |-> ref,
            heap |-> [heap EXCEPT ![ref] = Append(@, fn.tag)]]
      [] OTHER ->
           [raised |-> FALSE, error |-> 0,
            ret |-> IF heap[ref] = << >> THEN 0 ELSE ref, heap |-> heap]

\* The error an error handler raises.
HandlerError == 99

\* The mark an error handler leaves for `error`.
ErrorMark(error) == 10 + error

\* The error handler called with (message, error, processor_name).
CallHandler(h, heap, ref, error, name) ==
    CASE h = "drop" -> [raised |-> FALSE, ret |-> 0, heap |-> heap]
      [] h = "raise" -> [raised |-> TRUE, ret |-> 0, heap |-> heap]
      [] h = "fresh" ->
           [raised |-> FALSE, ret |-> Len(heap) + 1,
            heap |-> Append(heap, <<ErrorMark(error)>>)]
      [] ref = 0 -> [raised |-> FALSE, ret |-> 0, heap |-> heap]
      [] OTHER ->
           [raised |-> FALSE, ret |-> ref,
            heap |-> [heap EXCEPT ![ref] = Append(@, ErrorMark(error))]]

\* The value of the object `ref` in `heap`; Nothing for None.
ValueOf(heap, ref) == IF ref = 0 THEN Nothing ELSE Some(heap[ref])

\* ProcessorResult(output, success, error, failed_processor), with the record
\* of the calls process() made: `calls` the stages invoked, in order, each
\* with what it was given and what it returned; `hcalls` the error handler's
\* invocations, each with the arguments it was given, the value the message
\* had then, and what it returned.
ProcessorResult(st, output, success, error, failed) ==
    [output |-> output, success |-> success, error |-> error,
     failed_processor |-> failed, heap |-> st.heap, calls |-> st.calls,
     hcalls |-> st.hcalls]

\* `if current_message is None` at the head of the loop body.
DroppedBefore_never(current_message) == FALSE
DroppedBefore(current_message) == current_message = 0

\* The argument of a stage: processor(current_message).
StageArg_original(message, current_message) == message
StageArg(message, current_message) == current_message

\* The message the error handler is given: error_handler(message, ...).
HandlerArg_current(message, current_message) == current_message
HandlerArg(message, current_message) == message

\* The stage name the error handler is given.
HandlerName_first(procs, i) == procs[1].name
HandlerName(procs, i) == procs[i].name

\* current_message = self.error_handler(...): the handler's return value
\* becomes the current message.
Recovered_ignored(returned, current_message) == current_message
Recovered(returned, current_message) == returned

\* `if not self.error_handler` in the except clause of a stage.
HasHandler_always(handler) == TRUE
HasHandler(handler) == handler # None

\* `except Exception as handler_error` around the handler's call.
HandlerRaised_swallowed(h) == FALSE
HandlerRaised(h) == h.raised

\* The loop of ProcessorChain.process from stage i on.  `message` is the
\* reference process() was called with (0 for None), st.cur is current_message.
RECURSIVE ProcessLoop(_, _, _, _, _)
ProcessLoop(procs, handler, message, st, i) ==
    IF i > Len(procs) THEN
        ProcessorResult(st, st.cur, TRUE, 0, None)
    ELSE IF DroppedBefore(st.cur) THEN
        ProcessorResult(st, 0, FALSE, 0, procs[i].name)
    ELSE
        LET arg == StageArg(message, st.cur)
            r == CallStage(procs[i].fn, st.heap, arg)
            called == Append(st.calls,
                [stage |-> i, arg |-> arg, given |-> ValueOf(st.heap, arg),
                 raised |-> r.raised, ret |-> r.ret])
        IN  IF ~r.raised THEN
                ProcessLoop(procs, handler, message,
                            [st EXCEPT !.heap = r.heap, !.cur = r.ret,
                                       !.calls = called], i + 1)
            ELSE IF ~HasHandler(handler) THEN
                ProcessorResult([st EXCEPT !.calls = called], 0, FALSE,
                                r.error, procs[i].name)
            ELSE
                LET harg == HandlerArg(message, st.cur)
                    hname == HandlerName(procs, i)
                    h == CallHandler(handler, r.heap, harg, r.error, hname)
                    hcalled == Append(st.hcalls,
                        [stage |-> i, message |-> harg,
                         seen |-> ValueOf(r.heap, harg), error |-> r.error,
                         name |-> hname, raised |-> h.raised, ret |-> h.ret,
                         retval |-> ValueOf(h.heap, h.ret)])
                    \* the assignment does not happen when the call raises
                    st2 == [st EXCEPT !.heap = h.heap,
                                      !.cur = IF h.raised THEN st.cur
                                              ELSE Recovered(h.ret, st.cur),
                                      !.calls = called, !.hcalls = hcalled]
                IN  IF HandlerRaised(h) THEN
                        ProcessorResult(st2, 0, FALSE, HandlerError,
                                        procs[i].name)
                    ELSE IF st2.cur = 0 THEN
                        ProcessorResult(st2, 0, FALSE, r.error, procs[i].name)
                    ELSE
                        ProcessLoop(procs, handler, message, st2, i + 1)

\* ProcessorChain.process(message, return_result=True) for the optional
\* message `value` (Nothing for the drop-signal).
Process(procs, handler, value) ==
    LET heap0 == value
        m     == Len(value)
    IN  ProcessLoop(procs, handler, m,
                    [heap |-> heap0, cur |-> m, calls |-> << >>,
                     hcalls |-> << >>], 1)

\* The value of a result's output; Nothing for the drop-signal.
OutputValue(res) == ValueOf(res.heap, res.output)

\* What process(message, return_result) returns with the result `res` at
\* hand: `if return_result: return ProcessorResult(...)`, else the message
\* or None.
Returned(res, return_result) ==
    IF return_result THEN res ELSE OutputValue(res)

ChainInit ==
    /\ processors = << >>
    /\ error_handler = None
    /\ lastRun = << >>
    /\ lastError = << >>
    /\ pipeline = << >>
    /\ wire = << >>

\* ProcessorChain.add_processor(processor, name)
add_processor(fn, name) ==
    /\ Len(processors) < MaxStages
    /\ processors' = Append(processors,
           [fn |-> fn, name |-> IF name # None THEN name ELSE FnName(fn)])
    /\ lastRun' = << >>
    /\ UNCHANGED <<error_handler, lastError, pipeline, wire>>
    /\ UNCHANGED procVars

\* ProcessorChain.set_error_handler(handler_fn)
set_error_handler(h) ==
    /\ h # None
    /\ error_handler # h
    /\ error_handler' = h
    /\ lastRun' = << >>
    /\ UNCHANGED <<processors, lastError, pipeline, wire>>
    /\ UNCHANGED procVars

\* ProcessorChain.reset()
reset ==
    /\ processors # << >> \/ error_handler # None
    /\ processors' = << >>
    /\ error_handler' = None
    /\ lastRun' = << >>
    /\ UNCHANGED <<lastError, pipeline, wire>>
    /\ UNCHANGED procVars

\* ProcessorChain.process(message)
process(value) ==
    /\ lastRun' = <<[input |-> value,
                     result |-> Process(processors, error_handler, value)]>>
    /\ UNCHANGED <<processors, error_handler, lastError, pipeline, wire>>
    /\ UNCHANGED procVars

ChainNext ==
    \/ \E fn \in StageFns, name \in StageNames : add_processor(fn, name)
    \/ \E h \in Handlers : set_error_handler(h)
    \/ reset
    \/ \E value \in Inputs : process(value)



\* ------------------------------------------------ ChainedRabbitMQProcessor
\* The processor object, the threads that run its methods, and the broker
\* it talks to.  Execution units are the caller's thread (Main) and the
\* consumer threads the processor starts; each unit has a call stack of
\* frames, one per method it is inside of.

\* The consumer threads that can be alive at once.
MaxThreads == 2
\* The connections opened over a run.
MaxConns == 3
\* The connections the broker drops over a run.
MaxLoss == 1
\* The connections that can be lost in the runs of repeated outages.
MaxOutages == 2
\* The connection attempts the broker refuses over a run.
MaxRefuse == 1
\* The messages waiting in the input queue at the start.
MaxMsgs == 1
\* The messages waiting at the start in the runs of several messages.
MaxOrderMsgs == 2
\* The messages waiting at the start in the runs with every kind of body.
MaxFlowMsgs == 2
\* The deliveries the broker makes over a run.
MaxDeliveries == 2
\* The calls the caller's thread makes over a run.
MaxCalls == 2

Main == 0
Threads == 1..MaxThreads
Units == {Main} \cup Threads

\* The input queues; "out" is the output queue.
InputQueues == {"q1", "q2"}

\* The pipelines the caller subscribes with, by ProcessorChain.name.
\*   "P1": drops an empty message, else returns a new message
\*   "P2": its stage raises and no error handler is set
Pipelines == {"P1", "P2"}
PipelineOf(name) ==
    IF name = "P1"
    THEN [processors |-> << [fn |-> [kind |-> "filter", tag |-> 0],
                             name |-> "filter"],
                            [fn |-> [kind |-> "new", tag |-> 1],
                             name |-> "new"] >>,
          error_handler |-> None]
    ELSE [processors |-> << [fn |-> [kind |-> "raise", tag |-> 3],
                             name |-> "raise"] >>,
          error_handler |-> None]

\* The messages a producer can have put in the input queue, by their body:
\*   1: a JSON object
\*   2: text that is not JSON
\*   3: bytes that are not UTF-8 text
Payloads == {1, 2, 3}

\* What the text of a body that is not JSON holds.
TextMark == 7

\* The body of input message m.
BodyOf(m) ==
    CASE m = 1 -> [kind |-> "json", value |-> <<0>>]
      [] m = 2 -> [kind |-> "text", value |-> <<TextMark>>]
      [] OTHER -> [kind |-> "bytes", value |-> << >>]

\* json.loads(body): the parsed value, or the exception it raises.  Bytes are
\* decoded as UTF-8 before they are parsed, and bytes that are not UTF-8
\* raise UnicodeDecodeError, which is not a JSONDecodeError.
JsonLoads(body) ==
    CASE body.kind = "json" -> [raised |-> "", value |-> body.value]
      [] body.kind = "text" -> [raised |-> "JSONDecodeError", value |-> << >>]
      [] OTHER -> [raised |-> "UnicodeDecodeError", value |-> << >>]

\* body.decode('utf-8'): the text, or the exception it raises.
Utf8Decode(body) ==
    IF body.kind = "bytes"
    THEN [raised |-> "UnicodeDecodeError", value |-> << >>]
    ELSE [raised |-> "", value |-> body.value]

\* `except json.JSONDecodeError` around json.loads.
CaughtByDecode(error) == error = "JSONDecodeError"

\* The parse step of message_handler: json.loads(body), with the fall-back
\* to text; the message handed to the pipeline, or the exception that
\* leaves the step.
Decode(body) ==
    LET parsed == JsonLoads(body)
    IN  IF parsed.raised = "" THEN parsed
        ELSE IF CaughtByDecode(parsed.raised) THEN Utf8Decode(body)
        ELSE parsed

\* The body publish() sends for a message: json.dumps of a dict.
Encode(value) == [kind |-> "json", value |-> value]

\* The mark of a value json.dumps raises TypeError for (a set, a datetime).
NotJson == 8

\* json.dumps(message) succeeds.
Serializable(value) == \A j \in 1..Len(value) : value[j] # NotJson

\* processor_chain.process(message) for the pipeline named `chain`.
ChainProcess(chain, message) ==
    OutputValue(Process(PipelineOf(chain).processors,
                        PipelineOf(chain).error_handler, message))

\* ---- frames

Frame(proc, pc) ==
    [proc |-> proc, pc |-> pc, queue |-> "", chain |-> "", out |-> "",
     ch |-> 0, tag |-> 0, i |-> 0, n |-> 0, delay |-> 0, msg |-> Nothing]

\* The frame each method starts in.
connect_frame == Frame("connect", "open")
pwc_frame == Frame("pwc", "check")
publish_frame == Frame("publish", "check")
handler_frame == Frame("handler", "dropped")
consume_frame == Frame("consume", "head")
reconnect_frame == Frame("reconnect", "enter")
close_frame == Frame("close", "flag")

Depth(u) == Len(stack[u])
Top(u) == stack[u][Depth(u)]
At(u, proc, pc) ==
    /\ Depth(u) > 0
    /\ Top(u).proc = proc
    /\ Top(u).pc = pc

\* The stack of u with its top frame replaced, removed, or left at `pc`
\* under a new frame.
Goto(u, f) == [stack EXCEPT ![u] = [@ EXCEPT ![Len(@)] = f]]
Return(u) == [stack EXCEPT ![u] = SubSeq(@, 1, Len(@) - 1)]
Call(u, pc, f) ==
    [stack EXCEPT ![u] = Append([@ EXCEPT ![Len(@)].pc = pc], f)]

\* ---- the broker and the connection objects

\* channel.is_open / connection.is_open of connection id c.
IsOpen(c) == c \in DOMAIN conns /\ conns[c].open

\* What closing connection c does at the broker: the deliveries not yet
\* acknowledged on it go back to their queues.
RequeuedOnClose(c) ==
    [t \in DOMAIN deliveries |->
        IF deliveries[t].conn = c /\ deliveries[t].state = "unacked"
        THEN [deliveries[t] EXCEPT !.state = "requeued"]
        ELSE deliveries[t]]
ReadyAfterClose(c) ==
    [q \in InputQueues |->
        ready[q] \cup { deliveries[t].msg : t \in
            { x \in DOMAIN deliveries :
                /\ deliveries[x].conn = c
                /\ deliveries[x].state = "unacked"
                /\ deliveries[x].queue = q } }]

ProcInitWith(choices, losses, calls) ==
    /\ is_connected = FALSE
    /\ _running = TRUE
    /\ _reconnect_attempt = 0
    /\ _subscriptions = << >>
    /\ connection = 0
    /\ channel = 0
    /\ _lock = -1
    /\ _consumer_thread = 0
    /\ _shutdown_complete = FALSE
    /\ stack = [u \in Units |-> << >>]
    /\ ret = [u \in Units |-> FALSE]
    /\ conns = << >>
    /\ \E waiting \in choices :
          ready = [q \in InputQueues |-> IF q = "q1" THEN waiting ELSE {}]
    /\ outq = {}
    /\ deliveries = << >>
    /\ env = [losses |-> 0, refusals |-> 0, calls |-> 0,
              lostLooping |-> FALSE, maxLoss |-> losses,
              maxCalls |-> calls]
    /\ delays = << >>
    /\ sleepers = << >>

\* A processor as constructed, with the messages of the input queue waiting
\* at the broker.
ProcInit == ProcInitWith({1..MaxMsgs}, MaxLoss, MaxCalls)

\* A processor as constructed at a broker whose input queue is empty and
\* whose connections are lost more often.
OutageInit == ProcInitWith({{}}, MaxOutages, MaxCalls)

\* A processor as constructed with several messages waiting in the input
\* queue.
OrderInit == ProcInitWith({1..MaxOrderMsgs}, MaxLoss, MaxCalls)

\* A processor as constructed whose caller subscribes once, with messages of
\* any kind waiting in the input queue.
FlowInit ==
    ProcInitWith({w \in SUBSET Payloads : Cardinality(w) = MaxFlowMsgs},
                 MaxLoss, 1)

\* ---- connect()

\* BlockingConnection(parameters), connection.channel() and the two
\* assignments after them: the broker accepts the connection, or refuses it
\* (AMQPConnectionError) and connect returns False.
connect_open(u) ==
    /\ At(u, "connect", "open")
    /\ \/ /\ Len(conns) < MaxConns
          /\ conns' = Append(conns, [open |-> TRUE, consumers |-> << >>])
          /\ connection' = Len(conns) + 1
          /\ channel' = Len(conns) + 1
          /\ is_connected' = TRUE
          /\ _reconnect_attempt' = 0
          /\ delays' = << >>
          /\ stack' = Goto(u, [Top(u) EXCEPT !.pc = "restore", !.i = 1,
                                             !.n = Len(_subscriptions),
                                             !.ch = Len(conns) + 1])
          /\ UNCHANGED <<ret, env>>
       \/ /\ env.refusals < MaxRefuse
          /\ env' = [env EXCEPT !.refusals = @ + 1]
          /\ stack' = Return(u)
          /\ ret' = [ret EXCEPT ![u] = FALSE]
          /\ UNCHANGED <<conns, connection, channel, is_connected,
                         _reconnect_attempt, delays>>
    /\ UNCHANGED <<_running, _subscriptions, _lock, _consumer_thread,
                   _shutdown_complete, ready, outq, deliveries>>
    /\ UNCHANGED <<chainVars, sleepers>>

\* _restore_subscriptions(): one turn of its loop over the subscription
\* table.  The dict iterator raises RuntimeError when the table has grown
\* since the loop began, which connect() catches and returns False for.
connect_restore(u) ==
    /\ At(u, "connect", "restore")
    /\ IF Len(_subscriptions) # Top(u).n THEN
           /\ stack' = Return(u)
           /\ ret' = [ret EXCEPT ![u] = FALSE]
       ELSE IF Top(u).i > Top(u).n THEN
           /\ stack' = Return(u)
           /\ ret' = [ret EXCEPT ![u] = TRUE]
       ELSE
           /\ stack' = [stack EXCEPT ![u] =
                  Append([@ EXCEPT ![Len(@)].i = @ + 1],
                         [pwc_frame EXCEPT
                            !.queue = _subscriptions[Top(u).i].queue,
                            !.chain = _subscriptions[Top(u).i].chain,
                            !.out = _subscriptions[Top(u).i].output_queue])]
           /\ UNCHANGED ret
    /\ UNCHANGED <<is_connected, _running, _reconnect_attempt,
                   _subscriptions, connection, channel, _lock,
                   _consumer_thread, _shutdown_complete, conns, ready, outq,
                   deliveries, env, delays>>
    /\ UNCHANGED <<chainVars, sleepers>>

\* ---- process_with_chain()

\* self._subscriptions[input_queue] = (...): the table with the entry put.
PutSubscription(subs, sub) ==
    IF \E j \in 1..Len(subs) : subs[j].queue = sub.queue
    THEN [j \in 1..Len(subs) |->
            IF subs[j].queue = sub.queue THEN sub ELSE subs[j]]
    ELSE Append(subs, sub)

\* The thread a threading.Thread(...).start() starts: a free one.
FreeThread == CHOOSE t \in Threads :
                 /\ stack[t] = << >>
                 /\ \A x \in Threads : stack[x] = << >> => t <= x

\* The call of process_with_chain that unit u is in was made by
\* _restore_subscriptions.
IsReplay(u) == Depth(u) > 1 /\ stack[u][Depth(u) - 1].proc = "connect"

\* self.channel.basic_consume(queue, on_message_callback=message_handler):
\* the consumers of the current channel with the new one, whose handler
\* closes over the pipeline and the output queue of the call.
basic_consume(sub, replay) ==
    [conns EXCEPT ![channel].consumers =
        Append(@, [queue |-> sub.queue, chain |-> sub.chain,
                   output_queue |-> sub.output_queue, replay |-> replay])]

\* The try block of process_with_chain: store the subscription, declare the
\* queues, set the prefetch, register the consumer and start a consumer
\* thread; a closed channel raises, and the except block marks the
\* processor disconnected.
Setup(u) ==
    LET sub == [queue |-> Top(u).queue, chain |-> Top(u).chain,
                output_queue |-> Top(u).out]
    IN  /\ _subscriptions' = PutSubscription(_subscriptions, sub)
        /\ IF IsOpen(channel) THEN
               /\ \E t \in Threads : stack[t] = << >>
               /\ conns' = basic_consume(sub, IsReplay(u))
               /\ _shutdown_complete' = FALSE
               /\ _consumer_thread' = FreeThread
               /\ stack' = [Return(u) EXCEPT
                               ![FreeThread] = <<consume_frame>>]
               /\ UNCHANGED is_connected
           ELSE
               /\ is_connected' = FALSE
               /\ stack' = Return(u)
               /\ UNCHANGED <<conns, _shutdown_complete, _consumer_thread>>

\* `if not self.is_connected`: connect first; else go on to the try block.
pwc_check(u) ==
    /\ At(u, "pwc", "check")
    /\ IF ~is_connected THEN
           /\ stack' = Call(u, "connected", connect_frame)
           /\ UNCHANGED <<_subscriptions, conns, _shutdown_complete,
                          _consumer_thread, is_connected>>
       ELSE Setup(u)
    /\ UNCHANGED <<_running, _reconnect_attempt, connection, channel, _lock,
                   ret, ready, outq, deliveries, env, delays>>
    /\ UNCHANGED <<chainVars, sleepers>>

\* `if not self.connect(): return`, and the try block after a connect.
pwc_connected_ignores_result(u) ==
    /\ At(u, "pwc", "connected")
    /\ Setup(u)
    /\ ret' = [ret EXCEPT ![u] = FALSE]
    /\ UNCHANGED <<_running, _reconnect_attempt, connection, channel, _lock,
                   ready, outq, deliveries, env, delays>>
    /\ UNCHANGED <<chainVars, sleepers>>

pwc_connected(u) ==
    /\ At(u, "pwc", "connected")
    /\ IF ~ret[u] THEN
           /\ stack' = Return(u)
           /\ UNCHANGED <<_subscriptions, conns, _shutdown_complete,
                          _consumer_thread, is_connected>>
       ELSE Setup(u)
    /\ ret' = [ret EXCEPT ![u] = FALSE]
    /\ UNCHANGED <<_running, _reconnect_attempt, connection, channel, _lock,
                   ready, outq, deliveries, env, delays>>
    /\ UNCHANGED <<chainVars, sleepers>>

\* ---- publish()

\* The try block of publish: declare the queue, encode the message and
\* basic_publish it on the current channel; a closed channel raises and so
\* does json.dumps of a value it cannot encode, and the except blocks mark
\* the processor disconnected and return False.
Send_keeps_connected(u) ==
    /\ IF IsOpen(channel) /\ Serializable(Top(u).msg[1]) THEN
           /\ outq' = outq \cup {[tag |-> Top(u).tag,
                                  body |-> Encode(Top(u).msg[1])]}
           /\ ret' = [ret EXCEPT ![u] = TRUE]
           /\ UNCHANGED is_connected
       ELSE
           /\ ret' = [ret EXCEPT ![u] = FALSE]
           /\ UNCHANGED <<outq, is_connected>>
    /\ stack' = Return(u)

Send(u) ==
    /\ IF IsOpen(channel) /\ Serializable(Top(u).msg[1]) THEN
           /\ outq' = outq \cup {[tag |-> Top(u).tag,
                                  body |-> Encode(Top(u).msg[1])]}
           /\ ret' = [ret EXCEPT ![u] = TRUE]
           /\ UNCHANGED is_connected
       ELSE
           /\ is_connected' = FALSE
           /\ ret' = [ret EXCEPT ![u] = FALSE]
           /\ UNCHANGED outq
    /\ stack' = Return(u)

\* `if not self.is_connected`: connect first; else go on to the try block.
publish_check(u) ==
    /\ At(u, "publish", "check")
    /\ IF ~is_connected THEN
           /\ stack' = Call(u, "connected", connect_frame)
           /\ UNCHANGED <<outq, ret, is_connected>>
       ELSE Send(u)
    /\ UNCHANGED <<_running, _reconnect_attempt, _subscriptions, connection,
                   channel, _lock, _consumer_thread, _shutdown_complete,
                   conns, ready, deliveries, env, delays>>
    /\ UNCHANGED <<chainVars, sleepers>>

\* `if not self.connect(): return False`, and the try block after a connect.
publish_connected(u) ==
    /\ At(u, "publish", "connected")
    /\ IF ~ret[u] THEN
           /\ stack' = Return(u)
           /\ UNCHANGED <<outq, ret, is_connected>>
       ELSE Send(u)
    /\ UNCHANGED <<_running, _reconnect_attempt, _subscriptions, connection,
                   channel, _lock, _consumer_thread, _shutdown_complete,
                   conns, ready, deliveries, env, delays>>
    /\ UNCHANGED <<chainVars, sleepers>>

\* ---- message_handler(ch, method, properties, body)

\* ch.basic_ack / ch.basic_nack(requeue=True) for the delivery the handler of
\* t holds, `first` being the call the handler makes.  On an open channel the
\* broker settles the delivery and the handler returns.  On a closed channel
\* the call raises, the except block's basic_nack raises too, and the
\* exception leaves process_data_events for the `except Exception` of the
\* consumer loop, which goes round again (the `with` gives the lock back).
Settle(t, first, pub) ==
    LET d == Top(t).tag
        nth == Cardinality({e \in DOMAIN deliveries :
                               deliveries[e].end # "none"}) + 1
    IN
    IF IsOpen(Top(t).ch) THEN
        /\ deliveries' = [deliveries EXCEPT
               ![d].state = IF first = "ack" THEN "acked" ELSE "requeued",
               ![d].calls = Append(@, first),
               ![d].pub = pub,
               ![d].end = "returned",
               ![d].nth = nth]
        /\ ready' = IF first = "nack"
                    THEN [ready EXCEPT ![deliveries[d].queue] =
                                           @ \cup {deliveries[d].msg}]
                    ELSE ready
        /\ stack' = Return(t)
        /\ UNCHANGED _lock
    ELSE
        /\ deliveries' = [deliveries EXCEPT
               ![d].calls = @ \o <<first, "nack">>,
               ![d].pub = pub,
               ![d].end = "raised",
               ![d].nth = nth]
        /\ stack' = [stack EXCEPT ![t] =
                        <<[stack[t][1] EXCEPT !.pc = "head", !.ch = 0]>>]
        /\ _lock' = -1
        /\ UNCHANGED ready

\* `except Exception` of the handler, entered from the parse step: the
\* delivery is rejected with requeue.
handler_failed_acks(t) ==
    /\ At(t, "handler", "failed")
    /\ Settle(t, "ack", "none")
    /\ UNCHANGED <<is_connected, _running, _reconnect_attempt,
                   _subscriptions, connection, channel, _consumer_thread,
                   _shutdown_complete, ret, conns, outq, env, delays>>
    /\ UNCHANGED <<chainVars, sleepers>>

handler_failed(t) ==
    /\ At(t, "handler", "failed")
    /\ Settle(t, "nack", "none")
    /\ UNCHANGED <<is_connected, _running, _reconnect_attempt,
                   _subscriptions, connection, channel, _consumer_thread,
                   _shutdown_complete, ret, conns, outq, env, delays>>
    /\ UNCHANGED <<chainVars, sleepers>>

\* The pipeline returned None: the handler skips publish and acknowledges.
handler_dropped_nacks(t) ==
    /\ At(t, "handler", "dropped")
    /\ Settle(t, "nack", "none")
    /\ UNCHANGED <<is_connected, _running, _reconnect_attempt,
                   _subscriptions, connection, channel, _consumer_thread,
                   _shutdown_complete, ret, conns, outq, env, delays>>
    /\ UNCHANGED <<chainVars, sleepers>>

handler_dropped(t) ==
    /\ At(t, "handler", "dropped")
    /\ Settle(t, "ack", "none")
    /\ UNCHANGED <<is_connected, _running, _reconnect_attempt,
                   _subscriptions, connection, channel, _consumer_thread,
                   _shutdown_complete, ret, conns, outq, env, delays>>
    /\ UNCHANGED <<chainVars, sleepers>>

\* message_handler with `ch.basic_ack` in place of the basic_nack of the
\* failure branch.
handler_published_ack_on_failure(t) ==
    /\ At(t, "handler", "published")
    /\ IF ret[t] THEN Settle(t, "ack", "true")
                 ELSE Settle(t, "ack", "false")
    /\ ret' = [ret EXCEPT ![t] = FALSE]
    /\ UNCHANGED <<is_connected, _running, _reconnect_attempt,
                   _subscriptions, connection, channel, _consumer_thread,
                   _shutdown_complete, conns, outq, env, delays>>
    /\ UNCHANGED <<chainVars, sleepers>>

\* message_handler with `ch.basic_nack(requeue=True)` in place of the
\* basic_ack of the success branch.
handler_published_nack_on_success(t) ==
    /\ At(t, "handler", "published")
    /\ IF ret[t] THEN Settle(t, "nack", "true")
                 ELSE Settle(t, "nack", "false")
    /\ ret' = [ret EXCEPT ![t] = FALSE]
    /\ UNCHANGED <<is_connected, _running, _reconnect_attempt,
                   _subscriptions, connection, channel, _consumer_thread,
                   _shutdown_complete, conns, outq, env, delays>>
    /\ UNCHANGED <<chainVars, sleepers>>

\* publish() has returned: acknowledge on success, else reject with
\* requeue=True and return.
handler_published(t) ==
    /\ At(t, "handler", "published")
    /\ IF ret[t] THEN Settle(t, "ack", "true")
                 ELSE Settle(t, "nack", "false")
    /\ ret' = [ret EXCEPT ![t] = FALSE]
    /\ UNCHANGED <<is_connected, _running, _reconnect_attempt,
                   _subscriptions, connection, channel, _consumer_thread,
                   _shutdown_complete, conns, outq, env, delays>>
    /\ UNCHANGED <<chainVars, sleepers>>

\* ---- _start_consuming()

\* `while self._running and self.is_connected`
consume_head(t) ==
    /\ At(t, "consume", "head")
    /\ stack' = Goto(t, [Top(t) EXCEPT !.pc =
                    IF _running /\ is_connected THEN "lock" ELSE "after"])
    /\ UNCHANGED <<is_connected, _running, _reconnect_attempt,
                   _subscriptions, connection, channel, _lock,
                   _consumer_thread, _shutdown_complete, ret, conns, ready,
                   outq, deliveries, env, delays>>
    /\ UNCHANGED <<chainVars, sleepers>>

\* `with self._lock`: with the channel open, enter
\* self.connection.process_data_events(); else mark the processor
\* disconnected and break.
consume_lock(t) ==
    /\ At(t, "consume", "lock")
    /\ _lock = -1
    /\ IF IsOpen(channel) THEN
           /\ _lock' = t
           /\ stack' = Goto(t, [Top(t) EXCEPT !.pc = "pump",
                                              !.ch = connection])
           /\ UNCHANGED is_connected
       ELSE
           /\ is_connected' = FALSE
           /\ stack' = Goto(t, [Top(t) EXCEPT !.pc = "after"])
           /\ UNCHANGED _lock
    /\ UNCHANGED <<_running, _reconnect_attempt, _subscriptions, connection,
                   channel, _consumer_thread, _shutdown_complete, ret,
                   conns, ready, outq, deliveries, env, delays>>
    /\ UNCHANGED <<chainVars, sleepers>>

\* The delivery `tag` is waiting on connection c for its callback.
Pending(c, tag) ==
    /\ deliveries[tag].conn = c
    /\ deliveries[tag].state = "unacked"
    /\ ~deliveries[tag].handled

\* process_data_events hands the delivery `tag`, the oldest one waiting on
\* the connection, to its consumer's message_handler, which decodes the body
\* and runs the pipeline; with a result it calls publish(output_queue,
\* result).  An exception of the parse step goes to the except block of the
\* handler.
consume_dispatch(t, tag) ==
    /\ At(t, "consume", "pump")
    /\ IsOpen(Top(t).ch)
    /\ tag \in DOMAIN deliveries
    /\ Pending(Top(t).ch, tag)
    /\ \A older \in 1..(tag - 1) : ~Pending(Top(t).ch, older)
    /\ LET sub == conns[Top(t).ch].consumers[deliveries[tag].consumer]
           decoded == Decode(BodyOf(deliveries[tag].msg))
           failed == decoded.raised # ""
           message == Some(decoded.value)
           processed_message ==
               IF failed THEN Nothing ELSE ChainProcess(sub.chain, message)
           handler == [handler_frame EXCEPT
                          !.queue = sub.queue, !.chain = sub.chain,
                          !.out = sub.output_queue, !.ch = Top(t).ch,
                          !.tag = tag, !.msg = processed_message]
       IN  /\ deliveries' = [deliveries EXCEPT
                  ![tag].handled = TRUE,
                  ![tag].given = IF failed THEN Nothing ELSE message,
                  ![tag].result = IF failed THEN "error"
                                  ELSE IF processed_message = Nothing
                                  THEN "drop" ELSE "msg"]
           /\ stack' = [stack EXCEPT ![t] =
                  IF failed
                  THEN Append(@, [handler EXCEPT !.pc = "failed"])
                  ELSE IF processed_message = Nothing
                  THEN Append(@, handler)
                  ELSE @ \o << [handler EXCEPT !.pc = "published"],
                               [publish_frame EXCEPT
                                   !.out = sub.output_queue, !.tag = tag,
                                   !.msg = processed_message] >>]
    /\ UNCHANGED <<is_connected, _running, _reconnect_attempt,
                   _subscriptions, connection, channel, _lock,
                   _consumer_thread, _shutdown_complete, ret, conns, ready,
                   outq, env, delays>>
    /\ UNCHANGED <<chainVars, sleepers>>

\* process_data_events returns when its time slice is over: the lock is
\* given back, and `if not self._running: break`.
consume_slice_end(t) ==
    /\ At(t, "consume", "pump")
    /\ IsOpen(Top(t).ch)
    /\ _lock' = -1
    /\ stack' = Goto(t, [Top(t) EXCEPT !.ch = 0, !.pc =
                    IF ~_running THEN "after" ELSE "head"])
    /\ UNCHANGED <<is_connected, _running, _reconnect_attempt,
                   _subscriptions, connection, channel, _consumer_thread,
                   _shutdown_complete, ret, conns, ready, outq, deliveries,
                   env, delays>>
    /\ UNCHANGED <<chainVars, sleepers>>

\* process_data_events raises on a lost connection: ConnectionClosed marks
\* the processor disconnected and breaks; any other exception is logged and
\* the loop goes round again.
consume_pump_error(t) ==
    /\ At(t, "consume", "pump")
    /\ ~IsOpen(Top(t).ch)
    /\ _lock' = -1
    /\ \/ /\ is_connected' = FALSE
          /\ stack' = Goto(t, [Top(t) EXCEPT !.ch = 0, !.pc = "after"])
       \/ /\ stack' = Goto(t, [Top(t) EXCEPT !.ch = 0, !.pc = "head"])
          /\ UNCHANGED is_connected
    /\ UNCHANGED <<_running, _reconnect_attempt, _subscriptions, connection,
                   channel, _consumer_thread, _shutdown_complete, ret,
                   conns, ready, outq, deliveries, env, delays>>
    /\ UNCHANGED <<chainVars, sleepers>>

\* After the loop: stop when no longer running; reconnect when the
\* connection is lost; then the finally block.
consume_after(t) ==
    /\ At(t, "consume", "after")
    /\ stack' = IF _running /\ ~is_connected
                THEN Call(t, "finally", reconnect_frame)
                ELSE Goto(t, [Top(t) EXCEPT !.pc = "finally"])
    /\ UNCHANGED <<is_connected, _running, _reconnect_attempt,
                   _subscriptions, connection, channel, _lock,
                   _consumer_thread, _shutdown_complete, ret, conns, ready,
                   outq, deliveries, env, delays>>
    /\ UNCHANGED <<chainVars, sleepers>>

\* finally: self._shutdown_complete.set(), and the thread ends.
consume_finally(t) ==
    /\ At(t, "consume", "finally")
    /\ _shutdown_complete' = TRUE
    /\ stack' = [stack EXCEPT ![t] = << >>]
    /\ ret' = [ret EXCEPT ![t] = FALSE]
    /\ UNCHANGED <<is_connected, _running, _reconnect_attempt,
                   _subscriptions, connection, channel, _lock,
                   _consumer_thread, conns, ready, outq, deliveries, env,
                   delays>>
    /\ UNCHANGED <<chainVars, sleepers>>

\* ---- _reconnect(delay=5)

\* The base delay and the cap of the backoff, in seconds.
BaseDelay == 5
CapDelay == 300

RECURSIVE Pow2(_)
Pow2(n) == IF n <= 0 THEN 1 ELSE 2 * Pow2(n - 1)

Min(a, b) == IF a < b THEN a ELSE b

\* min(delay * (2 ** (self._reconnect_attempt - 1)), 300)
BackoffDelay(attempt) == Min(BaseDelay * Pow2(attempt - 1), CapDelay)

\* `while self._running`: unit t goes to sleep for `delay`, or leaves
\* _reconnect.
WhileRunning(t, delay) ==
    IF _running
    THEN /\ stack' = Goto(t, [Top(t) EXCEPT !.pc = "sleep", !.delay = delay])
         /\ sleepers' = Append(sleepers, t)
    ELSE /\ stack' = Return(t)
         /\ UNCHANGED sleepers

\* self._reconnect_attempt += 1, the first backoff delay, and the loop's
\* first test.
reconnect_enter(t) ==
    /\ At(t, "reconnect", "enter")
    /\ _reconnect_attempt' = _reconnect_attempt + 1
    /\ WhileRunning(t, BackoffDelay(_reconnect_attempt + 1))
    /\ UNCHANGED <<is_connected, _running, _subscriptions, connection,
                   channel, _lock, _consumer_thread, _shutdown_complete,
                   ret, conns, ready, outq, deliveries, env, delays>>
    /\ UNCHANGED chainVars

\* time.sleep(backoff_delay) of t can be over: a thread that went to sleep
\* later wakes earlier only from a shorter sleep.
SleepOver(t) ==
    \A j \in 1..Len(sleepers) :
        sleepers[j] = t \/ Top(sleepers[j]).delay > Top(t).delay
           \/ \E k \in 1..j : sleepers[k] = t

\* time.sleep(backoff_delay) is over: `if not self._running: return`, and
\* the call of connect().
reconnect_sleep(t) ==
    /\ At(t, "reconnect", "sleep")
    /\ SleepOver(t)
    /\ sleepers' = SelectSeq(sleepers, LAMBDA x : x # t)
    /\ IF ~_running THEN
           /\ stack' = Return(t)
           /\ UNCHANGED delays
       ELSE
           /\ delays' = IF is_connected THEN delays
                         ELSE Append(delays, Top(t).delay)
           /\ stack' = Call(t, "connected", connect_frame)
    /\ UNCHANGED <<is_connected, _running, _reconnect_attempt,
                   _subscriptions, connection, channel, _lock,
                   _consumer_thread, _shutdown_complete, ret, conns, ready,
                   outq, deliveries, env>>
    /\ UNCHANGED chainVars

\* connect() has returned: break on success, else count the attempt,
\* compute the next delay and test the loop's condition again.
reconnect_connected(t) ==
    /\ At(t, "reconnect", "connected")
    /\ IF ret[t] THEN
           /\ stack' = Return(t)
           /\ UNCHANGED <<_reconnect_attempt, sleepers>>
       ELSE
           /\ _reconnect_attempt' = _reconnect_attempt + 1
           /\ WhileRunning(t, BackoffDelay(_reconnect_attempt + 1))
    /\ ret' = [ret EXCEPT ![t] = FALSE]
    /\ UNCHANGED <<is_connected, _running, _subscriptions, connection,
                   channel, _lock, _consumer_thread, _shutdown_complete,
                   conns, ready, outq, deliveries, env, delays>>
    /\ UNCHANGED chainVars

\* ---- close()

\* self._running = False
close_flag(u) ==
    /\ At(u, "close", "flag")
    /\ _running' = FALSE
    /\ stack' = Goto(u, [Top(u) EXCEPT !.pc = "lock"])
    /\ UNCHANGED <<is_connected, _reconnect_attempt, _subscriptions,
                   connection, channel, _lock, _consumer_thread,
                   _shutdown_complete, ret, conns, ready, outq, deliveries,
                   env, delays>>
    /\ UNCHANGED <<chainVars, sleepers>>

\* `with self._lock`: close the channel and the connection when open, and
\* mark the processor disconnected.
close_lock(u) ==
    /\ At(u, "close", "lock")
    /\ _lock = -1
    /\ IF IsOpen(channel) THEN
           /\ conns' = [conns EXCEPT ![channel].open = FALSE]
           /\ deliveries' = RequeuedOnClose(channel)
           /\ ready' = ReadyAfterClose(channel)
       ELSE UNCHANGED <<conns, deliveries, ready>>
    /\ is_connected' = FALSE
    /\ stack' = Goto(u, [Top(u) EXCEPT !.pc = "wait"])
    /\ UNCHANGED <<_running, _reconnect_attempt, _subscriptions, connection,
                   channel, _lock, _consumer_thread, _shutdown_complete,
                   ret, outq, env, delays>>
    /\ UNCHANGED <<chainVars, sleepers>>

\* The consumer thread close() waits for is alive.
ConsumerAlive == _consumer_thread # 0 /\ stack[_consumer_thread] # << >>

\* self._shutdown_complete.wait(5.0) when the consumer thread is alive:
\* close returns once the event is set, or after the timeout.
close_wait(u) ==
    /\ At(u, "close", "wait")
    /\ stack' = Return(u)
    /\ ret' = [ret EXCEPT ![u] = ~ConsumerAlive \/ _shutdown_complete]
    /\ UNCHANGED <<is_connected, _running, _reconnect_attempt,
                   _subscriptions, connection, channel, _lock,
                   _consumer_thread, _shutdown_complete, conns, ready, outq,
                   deliveries, env, delays>>
    /\ UNCHANGED <<chainVars, sleepers>>

\* ---- the caller's thread

\* The messages the caller publishes itself: one json.dumps encodes, and one
\* it does not.
MainMsgs == {Some(<<9>>), Some(<<NotJson>>)}

\* The caller calls a method of the processor.
MainCall(f) ==
    /\ stack[Main] = << >>
    /\ env.calls < env.maxCalls
    /\ env' = [env EXCEPT !.calls = @ + 1]
    /\ stack' = [stack EXCEPT ![Main] = <<f>>]
    /\ ret' = [ret EXCEPT ![Main] = FALSE]
    /\ UNCHANGED <<is_connected, _running, _reconnect_attempt,
                   _subscriptions, connection, channel, _lock,
                   _consumer_thread, _shutdown_complete, conns, ready, outq,
                   deliveries, delays>>
    /\ UNCHANGED <<chainVars, sleepers>>

\* The application connects first, before any other call.
main_connect == env.calls = 0 /\ MainCall(connect_frame)

main_process_with_chain(q, chain) ==
    MainCall([pwc_frame EXCEPT !.queue = q, !.chain = chain,
                                           !.out = "out"])

main_publish(msg) ==
    MainCall([publish_frame EXCEPT !.out = "out", !.msg = msg])

main_close == MainCall(close_frame)

\* ---- the broker

\* No channel gets more consumers than this: a new thread starts with each.
MaxConsumers == 2 * MaxThreads + MaxCalls

\* The consumer k of connection c has no delivery it has not settled
\* (basic_qos(prefetch_count=1)).
Idle(c, k) ==
    \A t \in DOMAIN deliveries :
        ~(/\ deliveries[t].conn = c
          /\ deliveries[t].consumer = k
          /\ deliveries[t].state = "unacked")

\* The broker delivers a ready message of a queue to an idle consumer of it.
broker_deliver(c, k, m) ==
    /\ Len(deliveries) < MaxDeliveries
    /\ IsOpen(c)
    /\ k \in DOMAIN conns[c].consumers
    /\ Idle(c, k)
    /\ m \in ready[conns[c].consumers[k].queue]
    /\ ready' = [ready EXCEPT ![conns[c].consumers[k].queue] = @ \ {m}]
    /\ deliveries' = Append(deliveries,
           [msg |-> m, queue |-> conns[c].consumers[k].queue, conn |-> c,
            consumer |-> k, state |-> "unacked", handled |-> FALSE,
            given |-> Nothing, result |-> "none", nth |-> 0, pub |-> "none", calls |-> << >>,
            end |-> "none"])
    /\ UNCHANGED <<is_connected, _running, _reconnect_attempt,
                   _subscriptions, connection, channel, _lock,
                   _consumer_thread, _shutdown_complete, stack, ret, conns,
                   outq, env, delays>>
    /\ UNCHANGED <<chainVars, sleepers>>

\* The thread t is inside the while loop of _start_consuming.
Looping(t) ==
    /\ stack[t] # << >>
    /\ stack[t][1].proc = "consume"
    /\ stack[t][1].pc \in {"head", "lock", "pump"}

\* The connection c is lost: its channel is closed, and the broker puts the
\* deliveries not settled on it back in their queues.
connection_lost(c) ==
    /\ env.losses < env.maxLoss
    /\ IsOpen(c)
    /\ env' = [env EXCEPT !.losses = @ + 1,
                          !.lostLooping = @ \/ (c = connection /\ _running /\
                                                \E t \in Threads : Looping(t))]
    /\ conns' = [conns EXCEPT ![c].open = FALSE]
    /\ deliveries' = RequeuedOnClose(c)
    /\ ready' = ReadyAfterClose(c)
    /\ UNCHANGED <<is_connected, _running, _reconnect_attempt,
                   _subscriptions, connection, channel, _lock,
                   _consumer_thread, _shutdown_complete, stack, ret, outq,
                   delays>>
    /\ UNCHANGED <<chainVars, sleepers>>

\* ---- the specification

UnitStep(u) ==
    \/ connect_open(u)
    \/ connect_restore(u)
    \/ pwc_check(u)
    \/ pwc_connected(u)
    \/ publish_check(u)
    \/ publish_connected(u)

\* The steps of a consumer thread when every body in the input queue can be
\* decoded.
ThreadStep(t) ==
    \/ UnitStep(t)
    \/ handler_dropped(t)
    \/ handler_published(t)
    \/ consume_head(t)
    \/ consume_lock(t)
    \/ \E tag \in 1..MaxDeliveries : consume_dispatch(t, tag)
    \/ consume_slice_end(t)
    \/ consume_pump_error(t)
    \/ consume_after(t)
    \/ consume_finally(t)
    \/ reconnect_enter(t)
    \/ reconnect_sleep(t)
    \/ reconnect_connected(t)

MainStep ==
    \/ UnitStep(Main)
    \/ close_flag(Main)
    \/ close_lock(Main)
    \/ close_wait(Main)
    \/ main_connect
    \/ \E q \in InputQueues, chain \in Pipelines :
          main_process_with_chain(q, chain)
    \/ \E msg \in MainMsgs : main_publish(msg)
    \/ main_close

BrokerStep ==
    \/ \E c \in 1..MaxConns, k \in 1..MaxConsumers, m \in Payloads :
          broker_deliver(c, k, m)
    \/ \E c \in 1..MaxConns : connection_lost(c)

ProcNext ==
    \/ \E t \in Threads : ThreadStep(t)
    \/ MainStep
    \/ BrokerStep

Init == ProcInit /\ ChainInit

Next == ProcNext

Spec == Init /\ [][Next]_vars

\* The processor at a broker with an empty input queue: no message is
\* delivered, and the threads only pump, reconnect and replay.
OutageThreadStep(t) ==
    \/ UnitStep(t)
    \/ consume_head(t)
    \/ consume_lock(t)
    \/ consume_slice_end(t)
    \/ consume_pump_error(t)
    \/ consume_after(t)
    \/ consume_finally(t)
    \/ reconnect_enter(t)
    \/ reconnect_sleep(t)
    \/ reconnect_connected(t)

OutageNext ==
    \/ \E t \in Threads : OutageThreadStep(t)
    \/ MainStep
    \/ \E c \in 1..MaxConns : connection_lost(c)

InitOutage == OutageInit /\ ChainInit

SpecOutage == InitOutage /\ [][OutageNext]_vars

\* The processor subscribed once by its caller, with bodies of every kind
\* in the input queue.  No unit finds the processor disconnected when it
\* enters publish(): only the thread that is publishing marks it so.
FlowUnitStep(u) ==
    \/ connect_open(u)
    \/ connect_restore(u)
    \/ pwc_check(u)
    \/ pwc_connected(u)
    \/ publish_check(u)

FlowThreadStep(t) ==
    \/ FlowUnitStep(t)
    \/ handler_failed(t)
    \/ handler_dropped(t)
    \/ handler_published(t)
    \/ consume_head(t)
    \/ consume_lock(t)
    \/ \E tag \in 1..MaxDeliveries : consume_dispatch(t, tag)
    \/ consume_slice_end(t)
    \/ consume_pump_error(t)
    \/ consume_after(t)
    \/ consume_finally(t)
    \/ reconnect_enter(t)
    \/ reconnect_sleep(t)
    \/ reconnect_connected(t)

FlowNext ==
    \/ \E t \in Threads : FlowThreadStep(t)
    \/ FlowUnitStep(Main)
    \/ \E q \in InputQueues, chain \in Pipelines :
          main_process_with_chain(q, chain)
    \/ BrokerStep

InitFlow == FlowInit /\ ChainInit

SpecFlow == InitFlow /\ [][FlowNext]_vars

\* The processor subscribed to the one queue that holds messages, by a
\* caller that only subscribes.
OrderNext ==
    \/ \E t \in Threads : ThreadStep(t)
    \/ UnitStep(Main)
    \/ \E q \in {"q1"}, chain \in Pipelines :
          main_process_with_chain(q, chain)
    \/ BrokerStep

InitOrder == OrderInit /\ ChainInit

SpecOrder == InitOrder /\ [][OrderNext]_vars

\* ---- redelivery

\* A processor as constructed whose caller subscribes once, at a broker
\* whose connections are lost more often.
RetryInit == ProcInitWith({1..MaxMsgs}, MaxOutages, 1)

InitRetry == RetryInit /\ ChainInit

\* Every thread that can take a step takes one, a thread that pumps again
\* and again dispatches the delivery that waits on its connection, the
\* caller finishes the call it is in, and the broker delivers a message that
\* stays ready to a consumer that stays idle.  Connections need not be lost.
RetryThreadStep(t) ==
    \/ FlowUnitStep(t)
    \/ handler_dropped(t)
    \/ handler_published(t)
    \/ consume_head(t)
    \/ consume_lock(t)
    \/ \E tag \in 1..MaxDeliveries : consume_dispatch(t, tag)
    \/ consume_slice_end(t)
    \/ consume_pump_error(t)
    \/ consume_after(t)
    \/ consume_finally(t)
    \/ reconnect_enter(t)
    \/ reconnect_sleep(t)
    \/ reconnect_connected(t)

RetryNext ==
    \/ \E t \in Threads : RetryThreadStep(t)
    \/ FlowUnitStep(Main)
    \/ \E q \in {"q1"}, chain \in Pipelines :
          main_process_with_chain(q, chain)
    \/ BrokerStep

RetryFairness ==
    /\ \A t \in Threads : WF_vars(RetryThreadStep(t))
    /\ \A t \in Threads :
          SF_vars(\E tag \in 1..MaxDeliveries : consume_dispatch(t, tag))
    /\ WF_vars(FlowUnitStep(Main))
    /\ WF_vars(\E c \in 1..MaxConns, k \in 1..MaxConsumers, m \in Payloads :
                  broker_deliver(c, k, m))

SpecRetry == InitRetry /\ [][RetryNext]_vars /\ RetryFairness

\* ---- shutdown

\* A pipeline stage that never returns: process_data_events has handed the
\* delivery `tag` to its message_handler, whose processor_chain.process()
\* call stays in the stage; the thread stays there, inside `with self._lock`.
stage_stuck(t, tag) ==
    /\ At(t, "consume", "pump")
    /\ IsOpen(Top(t).ch)
    /\ tag \in DOMAIN deliveries
    /\ Pending(Top(t).ch, tag)
    /\ \A older \in 1..(tag - 1) : ~Pending(Top(t).ch, older)
    /\ Decode(BodyOf(deliveries[tag].msg)).raised = ""
    /\ LET sub == conns[Top(t).ch].consumers[deliveries[tag].consumer]
       IN  stack' = [stack EXCEPT ![t] =
               Append(@, [handler_frame EXCEPT
                             !.pc = "stuck", !.queue = sub.queue,
                             !.chain = sub.chain, !.out = sub.output_queue,
                             !.ch = Top(t).ch, !.tag = tag])]
    /\ deliveries' = [deliveries EXCEPT
           ![tag].handled = TRUE,
           ![tag].given = Some(Decode(BodyOf(deliveries[tag].msg)).value)]
    /\ UNCHANGED <<is_connected, _running, _reconnect_attempt,
                   _subscriptions, connection, channel, _lock,
                   _consumer_thread, _shutdown_complete, ret, conns, ready,
                   outq, env, delays>>
    /\ UNCHANGED <<chainVars, sleepers>>

\* The steps of the caller inside the call it has made.
MainInCall ==
    \/ UnitStep(Main)
    \/ close_flag(Main)
    \/ close_lock(Main)
    \/ close_wait(Main)

\* A caller that subscribes to the queue that holds messages and closes the
\* processor, with stages that may never return.
StopNext ==
    \/ \E t \in Threads : ThreadStep(t)
    \/ \E t \in Threads, tag \in 1..MaxDeliveries : stage_stuck(t, tag)
    \/ MainInCall
    \/ \E q \in {"q1"}, chain \in Pipelines :
          main_process_with_chain(q, chain)
    \/ main_close
    \/ BrokerStep

InitStop == ProcInit /\ ChainInit

\* Every thread that can take a step takes one, and so does the caller
\* inside a call: the interpreter switches between runnable threads.  The
\* caller need not call, and the broker need not deliver or fail.
StopFairness ==
    /\ \A t \in Threads : WF_vars(ThreadStep(t))
    /\ WF_vars(MainInCall)

SpecStop == InitStop /\ [][StopNext]_vars /\ StopFairness

\* The chain on its own: the processor is left as constructed.
InitChain == ChainInit /\ ProcInit

SpecChain == InitChain /\ [][ChainNext]_vars

\* ------------------------------------------- the application's error handler
\* error_handler(message, error, processor_name) of mainZ.py, the handler the
\* application sets on its chain.  A message is a Python object with its
\* type; a dict has items, a function from its keys to their values.

\* The keys a dict message is given with.
MessageKeys == {"data", "id", "processing_error"}

\* An entry left in a message by an earlier error.
EarlierError ==
    [error_id |-> <<"ERR", 0, 1000>>, processor |-> "earlier",
     error |-> "earlier", timestamp |-> 0, error_type |-> "KeyError"]

\* A str as the value of a key.
PyStr(s) == [str |-> s]

\* The values a key is given with.
MessageValues(k) ==
    IF k = "processing_error" THEN {EarlierError}
    ELSE {PyStr("test_data"), PyStr("123")}

\* The dict messages: every set of keys, with every choice of values.
DictMessages ==
    UNION {{[type |-> "dict", items |-> f] :
               f \in {g \in [K -> UNION {MessageValues(k) : k \in K}] :
                         \A k \in K : g[k] \in MessageValues(k)}} :
           K \in SUBSET MessageKeys}

\* Messages that are no dict: a str, a list, None.
OtherMessages ==
    {[type |-> t, items |-> << >>] : t \in {"str", "list", "NoneType"}}

\* Python's None as a return value.
PyNone == [type |-> "NoneType", items |-> << >>]

\* The exceptions a stage raises.
Errors ==
    {[type |-> "ValueError", arg |-> "Test error"],
     [type |-> "KeyError", arg |-> "id"]}

\* The names of the stages.
ProcessorNames == {"test_processor", "extract_article"}

\* The readings of time.time(), in tenths of a second, and the numbers
\* random.randint(1000, 9999) returns.
Clock == {12, 19}
Randoms == {1000, 9999}

\* str(error): the argument, which a KeyError shows quoted.
StrOf(error) ==
    IF error.type = "KeyError" THEN "'" \o error.arg \o "'" ELSE error.arg

\* type(error).__name__
TypeName(error) == error.type

\* f"ERR-{int(time.time())}-{random.randint(1000, 9999)}"
ErrorId(now, rnd) == <<"ERR", now \div 10, rnd>>

\* isinstance(message, dict)
IsDict(message) == message.type = "dict"

\* The keys of the message after message["processing_error"] = {...}.
KeysAfter_onlyError(message) == {"processing_error"}
KeysAfter(message) == DOMAIN message.items \cup {"processing_error"}

\* error_handler(message, error, processor_name), with the clock read at
\* `now` for the error id and at `later` for the timestamp.
ErrorHandler(message, error, processor_name, now, later, rnd) ==
    IF IsDict(message) THEN
        [type |-> "dict",
         items |-> [k \in KeysAfter(message) |->
            IF k = "processing_error"
            THEN [error_id |-> ErrorId(now, rnd),
                  processor |-> processor_name,
                  error |-> StrOf(error),
                  timestamp |-> later,
                  error_type |-> TypeName(error)]
            ELSE message.items[k]]]
    ELSE PyNone

\* A call of error_handler.
call_error_handler(message, error, processor_name, now, later, rnd) ==
    /\ now <= later
    /\ lastError' = <<[message |-> message, error |-> error,
                       processor_name |-> processor_name,
                       result |-> ErrorHandler(message, error,
                                      processor_name, now, later, rnd)]>>
    /\ UNCHANGED <<processors, error_handler, lastRun, pipeline, wire>>
    /\ UNCHANGED procVars

\* ProcessorChain(name): a chain as constructed, with the calls of
\* set_error_handler made on it so far.
NewChain(name) ==
    [name |-> name, processors |-> << >>, error_handler |-> None,
     handler_calls |-> 0]

\* chain.add_processor(processor, name), the function given by its name.
AddProcessor(chain, fn, name) ==
    [chain EXCEPT !.processors =
        Append(@, [fn |-> fn, name |-> IF name # None THEN name ELSE fn])]

\* chain.set_error_handler(handler_fn)
SetErrorHandler(chain, h) ==
    [chain EXCEPT !.error_handler = h, !.handler_calls = @ + 1]

\* create_complete_pipeline()
CreateCompletePipeline ==
    SetErrorHandler(
      AddProcessor(
        AddProcessor(
          AddProcessor(
            AddProcessor(NewChain("complete_pipeline"),
                         "extract_article", "extract_article"),
            "image_validator_processor", "image_validator_processor"),
          "script_processor", "script_processor"),
        "s2j_processor", "script2json"),
      "error_handler")

\* The application builds its pipeline.
create_complete_pipeline ==
    /\ pipeline = << >>
    /\ pipeline' = <<CreateCompletePipeline>>
    /\ UNCHANGED <<processors, error_handler, lastRun, lastError, wire>>
    /\ UNCHANGED procVars

HandlerNext ==
    \/ create_complete_pipeline
    \/ \E message \in DictMessages \cup OtherMessages, error \in Errors,
          processor_name \in ProcessorNames, now \in Clock, later \in Clock,
          rnd \in Randoms :
          call_error_handler(message, error, processor_name, now, later, rnd)

InitHandler == ChainInit /\ ProcInit

SpecHandler == InitHandler /\ [][HandlerNext]_vars

\* ------------------------------------------------------------ the wire format
\* What publish() makes of a message and what the parse step of
\* message_handler makes of that body.  A Python value is a record with one
\* field, named after its type: an int, a str, a tuple or a list of values,
\* or a dict, the sequence of its [key, value] items.  A body is the text
\* sent.

PyInt(n) == [int |-> n]
PyText(s) == [str |-> s]

\* isinstance(v, t)
IsInstance(v, t) == t \in DOMAIN v

\* The values found in lists.
WireItems ==
    {PyInt(1), PyInt(2), PyText("a"), PyText("b"),
     [tuple |-> <<PyInt(1), PyInt(2)>>]}

\* The longest list and the largest dict.
MaxItems == 2

\* The lists and the dicts a pipeline returns, the dicts with keys that are
\* str or int.
WireLists ==
    {[list |-> s] : s \in UNION {[1..n -> WireItems] : n \in 0..MaxItems}}
WireDicts ==
    {[dict |-> s] :
        s \in {p \in UNION {[1..n -> [key : {PyText("a"), PyText("b"),
                                             PyInt(1)},
                                      value : {PyInt(1), PyText("a")}]] :
                            n \in 0..MaxItems} :
                 \A i, j \in DOMAIN p : p[i].key = p[j].key => i = j}}

\* The JSON document json.dumps writes for a value: a number, a string, an
\* array or an object; a tuple is written as an array and a key that is an
\* int as the string of its digits.
RECURSIVE ToJson(_)
ToJson(v) ==
    CASE IsInstance(v, "int") -> [number |-> v.int]
      [] IsInstance(v, "str") -> [string |-> v.str]
      [] IsInstance(v, "dict") ->
           [object |-> [i \in DOMAIN v.dict |->
                          [name |-> IF IsInstance(v.dict[i].key, "int")
                                    THEN ToString(v.dict[i].key.int)
                                    ELSE v.dict[i].key.str,
                           value |-> ToJson(v.dict[i].value)]]]
      [] IsInstance(v, "tuple") ->
           [array |-> [i \in DOMAIN v.tuple |-> ToJson(v.tuple[i])]]
      [] OTHER ->
           [array |-> [i \in DOMAIN v.list |-> ToJson(v.list[i])]]

\* The text of a JSON document, with json.dumps' separators.
RECURSIVE Render(_)
RECURSIVE RenderAll(_, _)
RenderAll(docs, i) ==
    IF i > Len(docs) THEN ""
    ELSE (IF i > 1 THEN ", " ELSE "") \o Render(docs[i])
         \o RenderAll(docs, i + 1)
Render(doc) ==
    CASE "number" \in DOMAIN doc -> ToString(doc.number)
      [] "string" \in DOMAIN doc -> "\"" \o doc.string \o "\""
      [] "member" \in DOMAIN doc ->
           "\"" \o doc.member.name \o "\": " \o Render(doc.member.value)
      [] "array" \in DOMAIN doc -> "[" \o RenderAll(doc.array, 1) \o "]"
      [] OTHER ->
           "{" \o RenderAll([i \in DOMAIN doc.object |->
                               [member |-> doc.object[i]]], 1)
               \o "}"

\* The value json.loads makes of a JSON document.
RECURSIVE FromJson(_)
FromJson(doc) ==
    CASE "number" \in DOMAIN doc -> PyInt(doc.number)
      [] "string" \in DOMAIN doc -> PyText(doc.string)
      [] "object" \in DOMAIN doc ->
           [dict |-> [i \in DOMAIN doc.object |->
                        [key |-> PyText(doc.object[i].name),
                         value |-> FromJson(doc.object[i].value)]]]
      [] OTHER ->
           [list |-> [i \in DOMAIN doc.array |-> FromJson(doc.array[i])]]

\* The JSON documents a body can spell.
JsonDocuments ==
    {ToJson(v) : v \in WireItems \cup WireLists \cup WireDicts}
        \cup {[number |-> 123]}

\* The texts a pipeline returns: plain words, digits, and texts that spell
\* a JSON document.
WireTexts ==
    {PyText(s) : s \in {"", "hello", "123"}}
        \cup {PyText(Render(doc)) : doc \in JsonDocuments}

\* message_body of publish(): json.dumps(message, ensure_ascii=False) for a
\* dict or a list, the message itself for a str.
MessageBody(message) ==
    IF IsInstance(message, "dict") \/ IsInstance(message, "list")
    THEN Render(ToJson(message))
    ELSE message.str

\* The parse step of message_handler on a body: json.loads(body), and
\* body.decode('utf-8') when that raises JSONDecodeError.
ParseMessage(body) ==
    LET docs == {doc \in JsonDocuments : Render(doc) = body}
    IN  IF docs # {} THEN FromJson(CHOOSE doc \in docs : TRUE)
        ELSE PyText(body)

\* publish(queue, message) by one processor and the parse step of the
\* handler of a processor that consumes the queue.
publish_and_parse(message) ==
    /\ wire' = <<[message |-> message, body |-> MessageBody(message),
                  parsed |-> ParseMessage(MessageBody(message))]>>
    /\ UNCHANGED <<processors, error_handler, lastRun, lastError, pipeline>>
    /\ UNCHANGED procVars

WireNext ==
    \E message \in WireLists \cup WireDicts \cup WireTexts :
        publish_and_parse(message)

SpecWire == InitHandler /\ [][WireNext]_vars

\* ------------------------------------------------- properties of the chain

\* The last process() call, when there is one.
Ran == lastRun # << >>
Run == lastRun[1]

\* What a stage function makes of the value v, as a value: the reference for
\* a stage that neither raises nor drops.
StageValue(fn, v) ==
    IF fn.kind \in {"new", "inplace"} THEN Append(v, fn.tag) ELSE v

\* The stage functions applied to v one after another, in the order given.
RECURSIVE ApplyInOrder(_, _)
ApplyInOrder(procs, v) ==
    IF procs = << >> THEN v
    ELSE ApplyInOrder(Tail(procs), StageValue(Head(procs).fn, v))

\* No stage of procs raises or returns the drop-signal on the way from v.
RECURSIVE NoFailingStage(_, _)
NoFailingStage(procs, v) ==
    \/ procs = << >>
    \/ /\ Head(procs).fn.kind \notin {"raise", "drop"}
       /\ Head(procs).fn.kind = "filter" => v # << >>
       /\ NoFailingStage(Tail(procs), StageValue(Head(procs).fn, v))

\* C3: Stage order.  For a message that is not the drop-signal and a chain
\* whose stages neither raise nor drop, process(m) returns the stage
\* functions applied one after another in the order they were added: every
\* stage is invoked once, in order, each is given what the stages before it
\* made of m, and the result is what the last one returned.
C3_StageOrder ==
    (Ran /\ Run.input # Nothing /\ NoFailingStage(processors, Run.input[1]))
    => /\ OutputValue(Run.result)
            = Some(ApplyInOrder(processors, Run.input[1]))
       /\ Len(Run.result.calls) = Len(processors)
       /\ \A i \in 1..Len(processors) :
            /\ Run.result.calls[i].stage = i
            /\ Run.result.calls[i].given
                 = Some(ApplyInOrder(SubSeq(processors, 1, i - 1),
                                     Run.input[1]))
            /\ i > 1 => Run.result.calls[i].arg = Run.result.calls[i - 1].ret
       /\ Run.result.output
            = IF processors = << >> THEN 1
              ELSE Run.result.calls[Len(processors)].ret

\* A run of three stages that leave different marks, none of them failing.
C3_Witness ==
    /\ Ran /\ Run.input = Some(<<0>>)
    /\ Len(processors) = 3
    /\ NoFailingStage(processors, <<0>>)
    /\ processors[1].fn.kind = "new" /\ processors[2].fn.kind = "inplace"
    /\ OutputValue(Run.result) = Some(<<0, 1, 2, 2>>)

\* C4: Drop short-circuit.  Once a stage has returned the drop-signal no
\* later stage is invoked and process returns the drop-signal, at every
\* position of the dropping stage; when m itself is the drop-signal no stage
\* is invoked at all.
C4_DropShortCircuit ==
    Ran =>
      /\ \A j \in 1..Len(Run.result.calls) :
           (~Run.result.calls[j].raised /\ Run.result.calls[j].ret = 0)
           => /\ j = Len(Run.result.calls)
              /\ Run.result.output = 0
      /\ Run.input = Nothing
           => Run.result.calls = << >> /\ Run.result.output = 0

\* A stage in the middle of three dropped the message.
C4_Witness ==
    /\ Ran /\ Len(processors) = 3
    /\ Len(Run.result.calls) = 2
    /\ ~Run.result.calls[2].raised /\ Run.result.calls[2].ret = 0
    /\ processors[3].fn.kind = "new"

\* C5: Error handler arguments.  When stage k raises and a handler is set,
\* the handler is invoked once for that failure, with the message as it was
\* when process was called (not as the stages before k left it), the raised
\* error and stage k's name.
C5_HandlerArguments ==
    (Ran /\ error_handler # None) =>
      LET raises == SelectSeq(Run.result.calls, LAMBDA c : c.raised)
      IN  /\ Len(Run.result.hcalls) = Len(raises)
          /\ \A j \in 1..Len(raises) :
               LET hc == Run.result.hcalls[j]
                   k  == raises[j].stage
               IN  /\ hc.stage = k
                   /\ hc.name = processors[k].name
                   /\ hc.error = processors[k].fn.tag
                   /\ hc.message = 1
                   /\ hc.seen = Run.input

\* C6 as stated: if a stage raises and a handler is set, the result of
\* process is the very object the handler returned, or the drop-signal if the
\* handler raised, wherever the failing stage stands.
C6_ResultIsHandlerReturn ==
    Ran => \A j \in 1..Len(Run.result.hcalls) :
             LET hc == Run.result.hcalls[j]
             IN  Run.result.output = IF hc.raised THEN 0 ELSE hc.ret

\* C6, amended: if a stage raises and a handler is set, then if the handler
\* raises or returns the drop-signal no later stage runs and the result is
\* the drop-signal; otherwise the handler's return value is what the next
\* stage is given, and it is the result when the failing stage is the last.
C6_ResultAfterFailure ==
    Ran => \A j \in 1..Len(Run.result.hcalls) :
             LET hc == Run.result.hcalls[j]
                 calls == Run.result.calls
             IN  IF hc.raised \/ hc.ret = 0
                 THEN /\ Run.result.output = 0
                      /\ calls[Len(calls)].stage = hc.stage
                      /\ j = Len(Run.result.hcalls)
                 ELSE IF hc.stage = Len(processors)
                 THEN /\ Run.result.output = hc.ret
                      /\ OutputValue(Run.result) = hc.retval
                 ELSE \E n \in 1..Len(calls) :
                        /\ calls[n].stage = hc.stage + 1
                        /\ calls[n].arg = hc.ret
                        /\ calls[n].given = hc.retval

\* The first of three stages raised, the handler returned a new message, and
\* the two stages after it ran on that message.
C6_Witness ==
    /\ Ran /\ Len(processors) = 3 /\ error_handler = "fresh"
    /\ Len(Run.result.hcalls) = 1
    /\ Run.result.hcalls[1].stage = 1
    /\ Len(Run.result.calls) = 3
    /\ OutputValue(Run.result) # Run.result.hcalls[1].retval

\* C17: Stage failure without handler.  If a stage raises and no error
\* handler is set, process() invokes no later stage and returns the
\* drop-signal; the call returns, reporting the stage and its error, instead
\* of raising, whichever position the stage has.
C17_FailureWithoutHandler ==
    (Ran /\ error_handler = None) =>
      LET calls == Run.result.calls
      IN  \A j \in 1..Len(calls) :
            calls[j].raised
            => /\ j = Len(calls)
               /\ Run.result.hcalls = << >>
               /\ Run.result.output = 0
               /\ OutputValue(Run.result) = Nothing
               /\ ~Run.result.success
               /\ Run.result.failed_processor = processors[calls[j].stage].name
               /\ Run.result.error \in {processors[calls[j].stage].fn.tag,
                                        NoneError}

\* The second of three stages raised with no handler set, and the third,
\* which would have changed the message, was not invoked.
C17_Witness ==
    /\ Ran /\ error_handler = None /\ Len(processors) = 3
    /\ Run.input = Some(<<0>>)
    /\ processors[1].fn.kind = "inplace"
    /\ processors[2].fn.kind = "raise"
    /\ processors[3].fn.kind = "new"
    /\ Len(Run.result.calls) = 2
    /\ Run.result.calls[2].raised
    /\ Run.result.output = 0

\* C18: Handler failure.  If the error handler itself raises, or returns the
\* drop-signal, process() invokes no stage after the one that failed and
\* returns the drop-signal; the call returns instead of raising, and a
\* handler that raised is reported as the error of the call.
C18_HandlerFailure ==
    Ran => \A j \in 1..Len(Run.result.hcalls) :
             LET hc == Run.result.hcalls[j]
                 calls == Run.result.calls
             IN  (hc.raised \/ hc.ret = 0)
                 => /\ \A n \in 1..Len(calls) : calls[n].stage <= hc.stage
                    /\ OutputValue(Run.result) = Nothing
                    /\ ~Run.result.success
                    /\ Run.result.failed_processor = processors[hc.stage].name
                    /\ hc.raised => Run.result.error = HandlerError

\* The first of three stages raised, the handler raised too, and neither of
\* the two stages after it was invoked.
C18_Witness ==
    /\ Ran /\ error_handler = "raise" /\ Len(processors) = 3
    /\ Run.input = Some(<<0>>)
    /\ processors[1].fn.kind = "raise"
    /\ processors[2].fn.kind = "new"
    /\ Len(Run.result.calls) = 1
    /\ Len(Run.result.hcalls) = 1 /\ Run.result.hcalls[1].raised
    /\ Run.result.output = 0

\* ---- properties of the message handler

\* The handler of delivery d has ended.
Handled(d) == deliveries[d].end # "none"

\* The calls the handler of delivery d made on its channel include c.
Called(d, c) ==
    \E j \in 1..Len(deliveries[d].calls) : deliveries[d].calls[j] = c

\* The message of delivery d is in its input queue again, or has been
\* delivered again since.
BackInQueue(d) ==
    \/ deliveries[d].msg \in ready[deliveries[d].queue]
    \/ \E e \in DOMAIN deliveries : e > d /\ deliveries[e].msg = deliveries[d].msg

\* C1: for every delivery whose pipeline result is a message and for which
\* publish(output_queue, result) returned False, the handler's call is
\* basic_nack(requeue=True), it never calls basic_ack, the broker never
\* records an acknowledgement, and the message is back in the input queue
\* (or already delivered again).
C1_RequeueOnPublishFailure ==
    \A d \in DOMAIN deliveries :
        (deliveries[d].result = "msg" /\ deliveries[d].pub = "false") =>
            /\ deliveries[d].calls[1] = "nack"
            /\ ~Called(d, "ack")
            /\ deliveries[d].state = "requeued"
            /\ BackInQueue(d)

\* A delivery whose publish failed while its own channel was open: the
\* broker took the basic_nack and requeued the message.
C1_Witness ==
    \E d \in DOMAIN deliveries :
        /\ deliveries[d].result = "msg"
        /\ deliveries[d].pub = "false"
        /\ deliveries[d].end = "returned"
        /\ deliveries[d].state = "requeued"

\* C2 as stated: a delivery is acknowledged only if the pipeline returned
\* None for it or publish returned True for it, and whenever publish
\* returned True the delivery is acknowledged once the handler has ended.
C2_NoSilentLoss ==
    \A d \in DOMAIN deliveries :
        /\ deliveries[d].state = "acked" =>
               (deliveries[d].result = "drop" \/ deliveries[d].pub = "true")
        /\ deliveries[d].pub = "true" => deliveries[d].state = "acked"

\* C2 amended: a delivery is acknowledged, and basic_ack is called for it,
\* only if the pipeline returned None for it or publish returned True for
\* it; whenever publish returned True the result is in the output queue and
\* the handler's next call is basic_ack, which acknowledges the delivery
\* unless its channel has been closed since it was delivered: then the call
\* raises and the broker has requeued the message.
C2_AckedOnlyAfterOutcome ==
    \A d \in DOMAIN deliveries :
        /\ (deliveries[d].state = "acked" \/ Called(d, "ack")) =>
               (deliveries[d].result = "drop" \/ deliveries[d].pub = "true")
        /\ deliveries[d].pub = "true" =>
               /\ deliveries[d].calls[1] = "ack"
               /\ \E o \in outq : o.tag = d
               /\ \/ deliveries[d].state = "acked"
                  \/ /\ deliveries[d].end = "raised"
                     /\ ~IsOpen(deliveries[d].conn)
                     /\ deliveries[d].state = "requeued"
                     /\ BackInQueue(d)

\* A delivery whose result was published and which the broker then took the
\* acknowledgement of.
C2_Witness ==
    \E d \in DOMAIN deliveries :
        /\ deliveries[d].pub = "true"
        /\ deliveries[d].end = "returned"
        /\ deliveries[d].state = "acked"
        /\ \E o \in outq : o.tag = d

\* C14 as stated: when the pipeline returns None for a delivery, publish is
\* not called for it, nothing is sent to the output queue for it, and once
\* the handler has ended the delivery is acknowledged, not requeued.
C14_DroppedIsAcknowledged ==
    \A d \in DOMAIN deliveries :
        deliveries[d].result = "drop" =>
            /\ deliveries[d].pub = "none"
            /\ ~\E o \in outq : o.tag = d
            /\ Handled(d) => /\ deliveries[d].state = "acked"
                              /\ ~Called(d, "nack")

\* C14 amended: when the pipeline returns None for a delivery, publish is not
\* called for it, nothing is sent to the output queue for it, and the
\* handler's call is basic_ack, which acknowledges the delivery unless its
\* channel has been closed since it was delivered: then the call raises and
\* the broker has requeued the message.
C14_DroppedIsNeverPublished ==
    \A d \in DOMAIN deliveries :
        deliveries[d].result = "drop" =>
            /\ deliveries[d].pub = "none"
            /\ ~\E o \in outq : o.tag = d
            /\ \A u \in Units : \A j \in 1..Depth(u) :
                  stack[u][j].proc = "publish" => stack[u][j].tag # d
            /\ Handled(d) =>
                  /\ deliveries[d].calls[1] = "ack"
                  /\ \/ /\ deliveries[d].end = "returned"
                        /\ deliveries[d].state = "acked"
                        /\ deliveries[d].calls = <<"ack">>
                     \/ /\ deliveries[d].end = "raised"
                        /\ ~IsOpen(deliveries[d].conn)
                        /\ deliveries[d].state = "requeued"
                        /\ BackInQueue(d)

\* A delivery the pipeline dropped, acknowledged on its open channel with
\* nothing sent to the output queue.
C14_Witness ==
    \E d \in DOMAIN deliveries :
        /\ deliveries[d].result = "drop"
        /\ deliveries[d].given # Nothing
        /\ deliveries[d].end = "returned"
        /\ deliveries[d].state = "acked"
        /\ outq = {}

\* An exception left a step of the handler of delivery d: the parse step, or
\* the acknowledgement or rejection on a closed channel.
Escaped(d) ==
    \/ deliveries[d].result = "error"
    \/ deliveries[d].end = "raised"

\* C15: Handling exception disposition.  If an exception escapes a step of
\* the handler of a delivery, the handler's last call for the delivery is
\* basic_nack(requeue=True), the delivery ends requeued, with its message
\* back in the input queue, and not acknowledged; an exception of the parse
\* step leads to no basic_ack at all.
C15_ExceptionRequeues ==
    \A d \in DOMAIN deliveries :
        (Escaped(d) /\ Handled(d)) =>
            /\ deliveries[d].calls[Len(deliveries[d].calls)] = "nack"
            /\ deliveries[d].state = "requeued"
            /\ BackInQueue(d)
            /\ deliveries[d].result = "error" =>
                  /\ ~Called(d, "ack")
                  /\ deliveries[d].pub = "none"

\* A delivery whose body could not be decoded, rejected on its open channel
\* and requeued by the broker.
C15_Witness ==
    \E d \in DOMAIN deliveries :
        /\ deliveries[d].result = "error"
        /\ deliveries[d].end = "returned"
        /\ deliveries[d].calls = <<"nack">>
        /\ deliveries[d].state = "requeued"

\* C16: Decode never fails.  For every body (JSON, text that is not JSON,
\* arbitrary bytes) the parse step of the handler raises nothing and hands
\* the pipeline the parsed value or the raw text; a body that is not JSON
\* causes no rejection by itself.
C16_DecodeNeverFails ==
    \A d \in DOMAIN deliveries :
        deliveries[d].handled =>
            /\ deliveries[d].result # "error"
            /\ deliveries[d].given = Some(BodyOf(deliveries[d].msg).value)
            /\ (Called(d, "nack") /\ deliveries[d].end = "returned")
                  => deliveries[d].pub = "false"

\* ---- properties of reconnection

\* The consumers of queue q that a replay registered on connection c.
Replayed(c, q) ==
    {k \in DOMAIN conns[c].consumers :
        conns[c].consumers[k].queue = q /\ conns[c].consumers[k].replay}

\* C7: when a connect() returns True with subscriptions in the table, and the
\* channel it opened is the processor's channel and open, every subscription
\* has exactly one consumer that a replay registered on that channel.
C7_ReplayExactlyOnce ==
    [][\A u \in Units :
          (/\ At(u, "connect", "restore")
           /\ Depth(u)' = Depth(u) - 1
           /\ ret'[u]
           /\ channel' = Top(u).ch
           /\ IsOpen(channel)')
          => \A j \in 1..Len(_subscriptions') :
                Cardinality(Replayed(channel, _subscriptions[j].queue)') = 1]_vars

\* C8: while no stop is requested and the caller is in no call, a processor
\* with a recorded subscription has a thread in _start_consuming (pumping or
\* reconnecting); and every delivery whose handler has ended is acknowledged
\* or requeued.
C8_ErrorsNeverEndConsumption ==
    /\ (_running /\ _subscriptions # << >> /\ stack[Main] = << >>)
          => \E t \in Threads : stack[t] # << >>
    /\ \A d \in DOMAIN deliveries :
          Handled(d) => deliveries[d].state \in {"acked", "requeued"}

\* The processor is connected again: the flag is set, the counter is 0, the
\* channel is open and a consume loop is pumping it.
Reconnected ==
    /\ is_connected
    /\ _reconnect_attempt = 0
    /\ IsOpen(channel)
    /\ \E t \in Threads : Looping(t)

\* C9, as what its eventuality needs of every state: once the connection has
\* been lost under a running consume loop and no stop is requested, either
\* the processor is connected again with the counter at 0 and a loop pumping,
\* or some unit is still executing the processor's code and can call
\* connect() again.
C9_ReconnectLiveness ==
    (env.lostLooping /\ _running /\ ~Reconnected)
        => \E u \in Units : stack[u] # << >>

\* C10: the n-th delay waited before a reconnect attempt made while
\* disconnected, counted from the last successful connect(), is
\* min(5 * 2^(n-1), 300): 5, 10, 20, 40, 80, 160, 300 for n = 1..7, never
\* decreasing and never above 300.
C10_Backoff ==
    /\ \A n \in 1..Len(delays) : delays[n] = Min(5 * Pow2(n - 1), 300)
    /\ \A n \in 1..Len(delays) : delays[n] <= 300
    /\ \A n \in 2..Len(delays) : delays[n - 1] <= delays[n]
    /\ [n \in 1..7 |-> BackoffDelay(n)] = <<5, 10, 20, 40, 80, 160, 300>>

\* ---- properties of the lock and the consumer threads

\* Unit u is about to run the try block of publish(): queue_declare and
\* basic_publish on the processor's channel.
AboutToSend(u) ==
    /\ Depth(u) > 0
    /\ Top(u).proc = "publish"
    /\ \/ Top(u).pc = "check" /\ is_connected
       \/ Top(u).pc = "connected" /\ ret[u]

\* Thread t is inside process_data_events() of connection c, holding the
\* processor's lock.
InsidePump(t, c) ==
    /\ Depth(t) > 0
    /\ stack[t][1].proc = "consume" /\ stack[t][1].pc = "pump"
    /\ stack[t][1].ch = c
    /\ _lock = t

\* C11: Channel mutual exclusion.  No unit performs publish()'s operations
\* on the processor's channel while another unit is inside the event pump of
\* the same connection: the two exclude one another through the lock.
C11_ChannelMutualExclusion ==
    [][\A u \in Units :
         (AboutToSend(u) /\ stack'[u] # stack[u])
         => \A t \in Threads \ {u} : ~InsidePump(t, channel)]_vars

\* The threads that are running _start_consuming.
ConsumeLoops == {t \in Threads : stack[t] # << >>}

\* C12: One consume loop per processor.  At every moment at most one
\* background consume loop is running, whatever subscribe calls, disconnects
\* and reconnects came before: a later subscribe or a replay reuses the
\* running loop or replaces a finished one.
C12_OneConsumeLoop == Cardinality(ConsumeLoops) <= 1

\* The deliveries of queue q that have been handed to the handler and have
\* not had their acknowledgement or rejection yet.
InFlight(q) ==
    {d \in DOMAIN deliveries :
        /\ deliveries[d].queue = q
        /\ deliveries[d].handled
        /\ deliveries[d].end = "none"}

\* C13: One message in flight, in order.  For a subscription at most one
\* delivery at a time is between being handed to the pipeline and its
\* terminal acknowledgement or rejection, and the deliveries get their
\* terminal dispositions in the order the broker delivered them.
C13_OneInFlightInOrder ==
    \A q \in InputQueues :
        /\ Cardinality(InFlight(q)) <= 1
        /\ \A d, e \in DOMAIN deliveries :
             (/\ d < e
              /\ deliveries[d].queue = q /\ deliveries[e].queue = q
              /\ deliveries[d].end # "none" /\ deliveries[e].end # "none")
             => deliveries[d].nth < deliveries[e].nth

\* ---- properties of publish() and connect()

\* C19: publish result.  When publish(queue, message) returns, it has
\* returned True only if the message was sent on an open channel and is in
\* the output queue; when its try block ran on a closed channel it returns
\* False, with nothing sent, and the processor is marked disconnected.
C19_PublishResult ==
    [][\A u \in Units :
         (/\ Depth(u) > 0
          /\ Top(u).proc = "publish"
          /\ Depth(u)' = Depth(u) - 1)
         => /\ ret'[u] =>
                 /\ IsOpen(channel)
                 /\ [tag |-> Top(u).tag, body |-> Encode(Top(u).msg[1])]
                        \in outq'
                 /\ UNCHANGED is_connected
            /\ ~ret'[u] => outq' = outq
            /\ (AboutToSend(u) /\ ~IsOpen(channel))
                 => ~ret'[u] /\ ~is_connected']_vars

\* publish() has just returned False to the handler of a delivery, on a
\* channel that a connection loss closed, and the processor is marked
\* disconnected.
C19_Witness ==
    \E t \in Threads :
        /\ At(t, "handler", "published")
        /\ ~ret[t]
        /\ ~IsOpen(channel)
        /\ ~is_connected
        /\ ~\E o \in outq : o.tag = Top(t).tag

\* C20: connect success.  Whenever connect() returns True, at the return
\* the processor is marked connected, the reconnect-attempt counter is 0 and
\* every stored subscription has a consumer on the channel that the call
\* opened.
C20_ConnectSuccess ==
    [][\A u \in Units :
         (/\ At(u, "connect", "restore")
          /\ Depth(u)' = Depth(u) - 1
          /\ ret'[u])
         => /\ is_connected'
            /\ _reconnect_attempt' = 0
            /\ \A j \in 1..Len(_subscriptions') :
                 \E k \in DOMAIN conns'[Top(u).ch].consumers :
                    conns'[Top(u).ch].consumers[k].queue
                        = _subscriptions'[j].queue]_vars

\* C21: connect failure.  When the broker refuses the connection, connect()
\* returns False and the processor is marked disconnected at the return,
\* whatever the mark was when connect() was called.
C21_ConnectFailure ==
    [][\A u \in Units :
         (/\ At(u, "connect", "open")
          /\ Depth(u)' = Depth(u) - 1)
         => ~ret'[u] /\ ~is_connected']_vars

\* C22: subscribe while the broker is down.  A process_with_chain that finds
\* the processor disconnected and whose connect() is refused returns without
\* raising; none of its steps (the check, the refused connect, the return)
\* records a subscription, registers a consumer or starts a consumer thread.
SubscribingWhileDown(u) ==
    \/ At(u, "pwc", "check") /\ ~is_connected
    \/ /\ At(u, "connect", "open")
       /\ Depth(u) > 1 /\ stack[u][Depth(u) - 1].proc = "pwc"
       /\ Depth(u)' = Depth(u) - 1
    \/ At(u, "pwc", "connected") /\ ~ret[u]

C22_FailedSubscribe ==
    [][\A u \in Units :
         (SubscribingWhileDown(u) /\ stack'[u] # stack[u])
         => /\ _subscriptions' = _subscriptions
            /\ conns' = conns
            /\ \A t \in Threads : stack[t] = << >> => stack'[t] = << >>
            /\ _consumer_thread' = _consumer_thread
            /\ (At(u, "pwc", "connected") => stack'[u] = Return(u)[u])]_vars

C22_Witness ==
    \E u \in Units :
        /\ At(u, "pwc", "connected") /\ ~ret[u]
        /\ env.refusals > 0

\* C23: close terminates.  A call of close() always eventually returns, even
\* when a consumer thread never leaves a pipeline stage.
InClose == Depth(Main) > 0 /\ stack[Main][1].proc = "close"

C23_CloseTerminates == InClose ~> ~InClose

\* C24: close waits for the loop.  A close() that returns short of its
\* timeout returns when no consumer thread is running any more, and the
\* completion event is set only when none is.
C24_CloseWaitsForLoop ==
    [][/\ (/\ At(Main, "close", "wait")
           /\ stack'[Main] = << >>
           /\ ret'[Main])
          => ConsumeLoops = {}
       /\ (~_shutdown_complete /\ _shutdown_complete')
          => ConsumeLoops' = {}]_vars

\* C25: STOPPED is terminal.  Once the stop flag is set no step of a
\* consumer thread marks the processor connected or opens a connection, and
\* when close() returns the processor is marked disconnected and no
\* connection of it is open.
C25_StoppedIsTerminal ==
    [][/\ \A t \in Threads :
            (~_running /\ stack'[t] # stack[t] /\ stack'[Main] = stack[Main])
            => /\ is_connected' => is_connected
               /\ Len(conns') = Len(conns)
       /\ (At(Main, "close", "wait") /\ stack'[Main] = << >>)
          => /\ ~is_connected'
             /\ \A c \in DOMAIN conns' : ~conns'[c].open]_vars

\* C26: cancellation.  Once close() has set the stop flag no further
\* delivery is handed to a pipeline.
C26_NoDeliveryAfterStop ==
    [][~_running
       => \A tag \in DOMAIN deliveries :
             deliveries'[tag].handled => deliveries[tag].handled]_vars

\* C27: close is idempotent.  When a close() returns the stop flag is set,
\* the processor is marked disconnected and its channel and connection are
\* closed; a close() of a processor in that state changes none of it.
Closed ==
    /\ ~_running
    /\ ~is_connected
    /\ ~IsOpen(channel)
    /\ ~IsOpen(connection)

C27_CloseIdempotent ==
    [][/\ (At(Main, "close", "wait") /\ stack'[Main] = << >>) => Closed'
       /\ (InClose /\ Closed /\ stack'[Main] # stack[Main]) => Closed']_vars

\* C28: retry until acknowledged.  With no stop requested, every message
\* the broker has delivered from the input queue is eventually acknowledged,
\* possibly after redeliveries (as long as the broker has deliveries left to
\* make).
Delivered(m) == \E d \in DOMAIN deliveries : deliveries[d].msg = m

Acknowledged(m) ==
    \E d \in DOMAIN deliveries :
        deliveries[d].msg = m /\ deliveries[d].state = "acked"

C28_RetryUntilAcknowledged ==
    \A m \in 1..MaxMsgs :
        Delivered(m) ~> (Acknowledged(m) \/ Len(deliveries) = MaxDeliveries)

\* C29: state guarded by the lock.  Every step of a unit that changes the
\* connected flag, the reconnect-attempt counter or the subscription table
\* is taken while that unit holds the processor's lock.
HoldsLock(u) ==
    \/ _lock = u
    \/ /\ _lock = -1
       /\ At(u, "consume", "lock") \/ At(u, "close", "lock")

C29_GuardedByLock ==
    [][\A u \in Units :
         (/\ stack[u] # << >>
          /\ stack'[u] # stack[u]
          /\ \/ is_connected' # is_connected
             \/ _reconnect_attempt' # _reconnect_attempt
             \/ _subscriptions' # _subscriptions)
         => HoldsLock(u)]_vars

\* ---- properties of the application's error handler

\* The last call of error_handler, when there is one.
Handling == lastError # << >>
ErrorCall == lastError[1]

\* The 'processing_error' entry of the result names the stage, str(error)
\* and the error's type name, and has an error id and a timestamp.
ErrorEntry ==
    LET entry == ErrorCall.result.items["processing_error"]
    IN  /\ entry.processor = ErrorCall.processor_name
        /\ entry.error = (IF ErrorCall.error.type = "KeyError"
                          THEN "'id'" ELSE "Test error")
        /\ entry.error_type \in {"ValueError", "KeyError"}
        /\ entry.error_type = ErrorCall.error.type
        /\ DOMAIN entry = {"error_id", "processor", "error", "timestamp",
                           "error_type"}

\* C30 as stated: for a dict message error_handler returns the message with
\* all its original fields kept and the 'processing_error' entry; for any
\* other message it returns None.
C30_ErrorHandler ==
    Handling =>
        IF ErrorCall.message.type = "dict" THEN
            /\ ErrorCall.result.type = "dict"
            /\ \A k \in DOMAIN ErrorCall.message.items :
                  /\ k \in DOMAIN ErrorCall.result.items
                  /\ ErrorCall.result.items[k] = ErrorCall.message.items[k]
            /\ ErrorEntry
        ELSE ErrorCall.result = PyNone

\* C30, amended: the original fields are kept except for a
\* 'processing_error' entry the message already had, which the new entry
\* replaces; the result has no other field.
C30_ErrorHandlerReplacesEntry ==
    Handling =>
        IF ErrorCall.message.type = "dict" THEN
            /\ ErrorCall.result.type = "dict"
            /\ DOMAIN ErrorCall.result.items =
                  DOMAIN ErrorCall.message.items \cup {"processing_error"}
            /\ \A k \in DOMAIN ErrorCall.message.items \ {"processing_error"} :
                  ErrorCall.result.items[k] = ErrorCall.message.items[k]
            /\ ErrorEntry
        ELSE ErrorCall.result = PyNone

\* error_handler was called for a KeyError with a dict message that had
\* fields and an entry of an earlier error.
C30_Witness ==
    /\ Handling
    /\ ErrorCall.message.type = "dict"
    /\ DOMAIN ErrorCall.message.items = MessageKeys
    /\ ErrorCall.error.type = "KeyError"
    /\ ErrorCall.result.items["data"] = PyStr("test_data")

\* ---- properties of the application's pipeline

\* The names of the stages of the chain c, in order.
StageNamesOf(c) == [i \in 1..Len(c.processors) |-> c.processors[i].name]

\* C31: application pipeline composition.  create_complete_pipeline builds a
\* chain named 'complete_pipeline' whose stages are, in this order,
\* extract_article, image_processor, video_processor, script_processor and
\* script2json, and sets the error handler exactly once.
C31_PipelineComposition ==
    pipeline # << >> =>
        /\ pipeline[1].name = "complete_pipeline"
        /\ StageNamesOf(pipeline[1]) =
              <<"extract_article", "image_processor", "video_processor",
                "script_processor", "script2json">>
        /\ pipeline[1].error_handler = "error_handler"
        /\ pipeline[1].handler_calls = 1

\* C33: ProcessorResult agrees with the plain result.  For every chain and
\* message, process(m, return_result=True).output is what process(m)
\* returns, and its success flag is true exactly when that output is not the
\* drop-signal.
C33_ResultAgrees ==
    Ran =>
        LET detailed == Returned(Run.result, TRUE)
            plain == Returned(Run.result, FALSE)
        IN  /\ OutputValue(detailed) = plain
            /\ detailed.success <=> plain # Nothing

\* ---- properties of the subscriptions

\* The consumers of queue q registered on the processor's current channel.
HandlersOf(q) ==
    IF IsOpen(channel)
    THEN {k \in DOMAIN conns[channel].consumers :
             conns[channel].consumers[k].queue = q}
    ELSE {}

\* C32: one handler per input queue.  Each input queue has at most one
\* message handler registered on the current channel, and it runs the
\* pipeline stored in the subscription table for that queue.
C32_OneHandlerPerQueue ==
    \A q \in InputQueues :
        /\ Cardinality(HandlersOf(q)) <= 1
        /\ \A k \in HandlersOf(q) :
              \E j \in DOMAIN _subscriptions :
                  /\ _subscriptions[j].queue = q
                  /\ _subscriptions[j].chain = conns[channel].consumers[k].chain

\* ---- properties of the wire format

\* C34: wire round trip.  For every pipeline result that is a map, a list
\* or a text, the parse step of the handler makes of the body publish()
\* sends for it the result again.
C34_WireRoundTrip ==
    wire # << >> => wire[1].parsed = wire[1].message

====
